---- MODULE Spec2Model ----
(***************************************************************************)
(* A model of the market simulation engine of mmatamm-interface:           *)
(* QuestDbMarket (src/src/questdb_market.rs) and the session state machine *)
(* MarketTime (src/src/market.rs).                                         *)
(*                                                                         *)
(* Time is counted in sub-microsecond units: one microsecond is Micro      *)
(* units.  The clock (a chrono DateTime) has sub-microsecond resolution,   *)
(* the rows of the database carry whole microseconds, and every query      *)
(* parameter goes through timestamp_micros(), which truncates.             *)
(*                                                                         *)
(* Spec is every call of the Market trait over a database whose            *)
(* system_events table is a session calendar.  SpecFeed is the calls that  *)
(* advance the clock and the phase over any ascending system_events table, *)
(* with out of sequence events and equal timestamps, and SpecTick is       *)
(* next_event_or_tick alone over the same tables.  SpecLedger is the calls *)
(* of a trading strategy over a session calendar and a ticks table with a  *)
(* price below zero, and SpecPrice is price queries and trades over a      *)
(* ticks table that has no price of one symbol when the session opens.     *)
(* SpecCancel is SpecLedger's calls, each run to its end or dropped at its *)
(* await.  SpecProgress is a driver that keeps advancing the clock.        *)
(*                                                                         *)
(* A call that panics ends the run: no call follows it.                    *)
(***************************************************************************)
EXTENDS Integers, Sequences, FiniteSets, TLC

\* ---------------------------------------------------------------- bounds
Micro == 2              \* units of time per microsecond
MaxMicros == 2          \* system_events rows lie at microseconds 1..MaxMicros
MaxFeed == 2            \* rows of the system_events table
MaxTick == 2            \* tick durations are at most MaxTick units
MaxQuantity == 1        \* order quantities are 0..MaxQuantity and u32::MAX
InitialCash == 1        \* the cash handed to QuestDbMarket::new
MaxShares == 3          \* the largest share count: holdings counts in u32,
                        \* the model gives u32 the range 0..MaxShares
MaxTrades == 2          \* trades a run executes

MaxTime == Micro * MaxMicros + 1   \* the clock is observed up to here
StartTimes == {0, 1}               \* the start handed to QuestDbMarket::new
TickDurations == -1..MaxTick       \* a Duration may be zero or negative
Quantities == (0..MaxQuantity) \cup {MaxShares}   \* some u32, and u32::MAX
Symbols == {"A", "B"}

\* ------------------------------------------------------------ market.rs
Event == {"Tick", "PreMarketStart", "RegularMarketStart", "RegularMarketEnd",
          "PostMarketEnd"}
BoundaryEvents == Event \ {"Tick"}
MarketTime == {"NotTrading", "PreMarket", "Regular", "PostMarket", "Unknown"}

NoErr == <<"none">>
MarketTimeSkip(event, mt) == <<"MarketTimeSkip", event, mt>>

\* update_market_time! without the Unknown sentinel
update_market_time_strict(self, event, current_state, next_state) ==
    IF self = current_state
    THEN [ok |-> TRUE, mt |-> next_state, err |-> NoErr]
    ELSE [ok |-> FALSE, mt |-> self, err |-> MarketTimeSkip(event, self)]

\* update_market_time! that accepts every event
update_market_time_lenient(self, event, current_state, next_state) ==
    [ok |-> TRUE, mt |-> next_state, err |-> NoErr]

\* update_market_time! that assigns the phase before it tests it
update_market_time_eager(self, event, current_state, next_state) ==
    IF self = current_state \/ self = "Unknown"
    THEN [ok |-> TRUE, mt |-> next_state, err |-> NoErr]
    ELSE [ok |-> FALSE, mt |-> next_state,
          err |-> MarketTimeSkip(event, self)]

\* update_market_time! that leaves the Unknown sentinel in place
update_market_time_unknown(self, event, current_state, next_state) ==
    IF self = current_state
    THEN [ok |-> TRUE, mt |-> next_state, err |-> NoErr]
    ELSE IF self = "Unknown"
    THEN [ok |-> TRUE, mt |-> self, err |-> NoErr]
    ELSE [ok |-> FALSE, mt |-> self, err |-> MarketTimeSkip(event, self)]

\* the macro update_market_time!: the result and the value of *self after it
update_market_time(self, event, current_state, next_state) ==
    IF self = current_state \/ self = "Unknown"
    THEN [ok |-> TRUE, mt |-> next_state, err |-> NoErr]
    ELSE [ok |-> FALSE, mt |-> self, err |-> MarketTimeSkip(event, self)]

\* MarketTime::update
update(self, event) ==
    CASE event = "PreMarketStart" ->
           update_market_time(self, event, "NotTrading", "PreMarket")
      [] event = "RegularMarketStart" ->
           update_market_time(self, event, "PreMarket", "Regular")
      [] event = "RegularMarketEnd" ->
           update_market_time(self, event, "Regular", "PostMarket")
      [] event = "PostMarketEnd" ->
           update_market_time(self, event, "PostMarket", "NotTrading")
      [] OTHER -> [ok |-> TRUE, mt |-> self, err |-> NoErr]

\* is_open that takes every phase but NotTrading for an open session
is_open_unknown(self) == self # "NotTrading"

\* MarketTime::is_open
is_open(self) == self = "PreMarket" \/ self = "Regular" \/ self = "PostMarket"

\* ------------------------------------------------------- the database
\* timestamp_micros that rounds up
timestamp_micros_ceil(t) == (t + Micro - 1) \div Micro

\* DateTime::timestamp_micros: whole microseconds, truncated
timestamp_micros(t) == t \div Micro
\* NaiveDateTime::and_utc of a timestamp column
and_utc(micros) == micros * Micro

\* the first column of a system_events row
EventKinds == {"system_hours_start", "regular_hours_start",
               "regular_hours_end", "system_hours_end"}
EventRows == [ts : 1..MaxMicros, kind : EventKinds]

RECURSIVE AscendingFeeds(_)
AscendingFeeds(n) ==
    IF n = 0 THEN {<<>>}
    ELSE LET shorter == AscendingFeeds(n - 1)
         IN  shorter \cup
             {Append(f, r) : f \in {g \in shorter : Len(g) = n - 1},
                             r \in EventRows}
\* the tables system_events may be: rows in ascending order of timestamp
Feeds == {f \in AscendingFeeds(MaxFeed) :
            \A i \in 1..(Len(f) - 1) : f[i].ts <= f[i + 1].ts}

\* a table ticks: the close price of a symbol at a microsecond
PlainTicks == {[ts |-> 0, symbol |-> "A", close |-> 1],
               [ts |-> 2, symbol |-> "A", close |-> 2],
               [ts |-> 1, symbol |-> "B", close |-> 1]}
\* a table ticks in which a close price (a double precision column)
\* falls below zero
SignedTicks == PlainTicks \cup {[ts |-> 2, symbol |-> "B", close |-> -1]}
\* a table ticks that has no price of B when the first session opens
LateTicks == {[ts |-> 0, symbol |-> "A", close |-> 1],
              [ts |-> 2, symbol |-> "A", close |-> 2],
              [ts |-> 2, symbol |-> "B", close |-> 1]}

VARIABLES
    time,            \* QuestDbMarket.time
    market_time,     \* QuestDbMarket.market_time
    events,          \* QuestDbMarket.events, the internal events
    cash,            \* QuestDbMarket.cash
    holdings,        \* QuestDbMarket.holdings: a map from the held symbols
    system_events,   \* the table system_events of the database
    ticks,           \* the table ticks of the database
    ret,             \* the last call: its arguments, its result, the state
                     \* it started from and the queries it sent to the store
    run,             \* the successful next_event_or_tick calls with one tick
                     \* duration made in a row: where they started, how many
    delivered,       \* the feed events the calls have returned, in order
    trades           \* how many trades the calls have executed

vars == <<time, market_time, events, cash, holdings, system_events, ticks,
          ret, run, delivered, trades>>

DatabaseError == <<"DatabaseError">>
UnexpectedDatabaseSymbol(s) == <<"UnexpectedDatabaseSymbol", s, "system event">>
FutureQuery(future_time, current_time) ==
    <<"FutureQuery", future_time, current_time>>
UnknownPrice(symbol) == <<"UnknownPrice", symbol>>
UntimelyTrade(symbol, t) == <<"UntimelyTrade", symbol, t>>
InsufficientCash(quantity, symbol, total_price, c) ==
    <<"InsufficientCash", quantity, symbol, total_price, c>>
InsufficientShares(quantity, symbol, owned) ==
    <<"InsufficientShares", quantity, symbol, owned>>

Ok(v) == [tag |-> "ok", val |-> v, err |-> NoErr]
\* the call panicked: it unwinds and returns nothing
Panic == [tag |-> "panic", val |-> <<>>, err |-> NoErr]
Err(e) == [tag |-> "err", val |-> <<>>, err |-> e]
None == <<"None">>
Some(v) == <<"Some", v>>

\* Market::shares_of
shares_of(symbol) == IF symbol \in DOMAIN holdings THEN holdings[symbol] ELSE 0

\* the state a call starts from
Pre == [time |-> time, market_time |-> market_time, events |-> events,
        cash |-> cash, holdings |-> holdings]

Call(op, args, result, queries) ==
    [op |-> op, args |-> args, result |-> result, pre |-> Pre,
     queries |-> queries]

\* the call was dropped at a suspension point: it returns nothing
Cancelled == [tag |-> "cancelled", val |-> <<>>, err |-> NoErr]
\* the market is alive: no call on it has panicked
Running == ret.result.tag # "panic"

NoRun == [tick |-> 0, start |-> 0, k |-> 0]
\* a driver that calls next_event_or_tick(tick) again and again
Repeated(tick) ==
    IF run.k > 0 /\ run.tick = tick
    THEN [run EXCEPT !.k = @ + 1]
    ELSE [tick |-> tick, start |-> time, k |-> 1]

\* the event a row of system_events stands for (the match of next_system_event)
event_type(kind) ==
    CASE kind = "system_hours_start" -> Ok("PreMarketStart")
      [] kind = "regular_hours_start" -> Ok("RegularMarketStart")
      [] kind = "regular_hours_end" -> Ok("RegularMarketEnd")
      [] kind = "system_hours_end" -> Ok("PostMarketEnd")
      [] OTHER -> Err(UnexpectedDatabaseSymbol(kind))

\* the query of next_system_event with timestamp >= $1
system_event_query_same(micros) ==
    LET later == {i \in 1..Len(system_events) : system_events[i].ts >= micros}
    IN  {system_events[i] : i \in {j \in later :
            \A k \in later : system_events[j].ts <= system_events[k].ts}}

\* the query of next_system_event with ORDER BY timestamp DESC
system_event_query_latest(micros) ==
    LET later == {i \in 1..Len(system_events) : system_events[i].ts > micros}
    IN  {system_events[i] : i \in {j \in later :
            \A k \in later : system_events[j].ts >= system_events[k].ts}}

\* SELECT * FROM system_events WHERE timestamp > $1 ORDER BY timestamp ASC
\* LIMIT 1: the rows the database may answer with (any of the earliest)
system_event_query(micros) ==
    LET later == {i \in 1..Len(system_events) : system_events[i].ts > micros}
    IN  {system_events[i] : i \in {j \in later :
            \A k \in later : system_events[j].ts <= system_events[k].ts}}

\* QuestDbMarket::next_system_event: the results the call may have
next_system_event ==
    LET rows == system_event_query(timestamp_micros(time))
    IN  {Err(DatabaseError)} \cup
        (IF rows = {} THEN {Ok(None)}
         ELSE {LET e == event_type(row.kind)
               IN  IF e.tag = "err" THEN e
                   ELSE Ok(Some(<<and_utc(row.ts), e.val>>)) : row \in rows})

\* QuestDbMarket::peek_next_event: the results the call may have
peek_next_event ==
    {IF next_sys.tag = "err" THEN next_sys
     ELSE IF next_sys.val # None /\ events # <<>>
          THEN (IF next_sys.val[2][1] >= Head(events)[1]
                THEN Ok(Some(Head(events)))
                ELSE next_sys)
     ELSE IF next_sys.val # None THEN next_sys
     ELSE IF events # <<>> THEN Ok(Some(Head(events)))
     ELSE Ok(None) : next_sys \in next_system_event}

\* the tables system_events that hold a session calendar: one row to an
\* instant, each event the legal successor of the one before it
Calendars ==
    {f \in Feeds :
        \A i \in 1..(Len(f) - 1) :
            /\ f[i].ts < f[i + 1].ts
            /\ update(update("Unknown", event_type(f[i].kind).val).mt,
                      event_type(f[i + 1].kind).val).ok}

\* QuestDbMarket::new, over a database whose system_events is one of tables
\* and whose ticks is one of prices
new(tables, prices) ==
    /\ time \in StartTimes
    /\ market_time = "Unknown"
    /\ events = <<>>
    /\ cash = InitialCash
    /\ holdings = <<>>
    /\ system_events \in tables
    /\ ticks \in prices
    /\ run = NoRun
    /\ delivered = <<>>
    /\ trades = 0
    /\ ret = [op |-> "new", args |-> <<>>, result |-> Ok(<<>>),
              pre |-> [time |-> time, market_time |-> "Unknown",
                       events |-> <<>>, cash |-> InitialCash,
                       holdings |-> <<>>],
              queries |-> <<>>]

\* a market over a session calendar
Init == new(Calendars, {PlainTicks})

\* a market over any feed, out of sequence events and ties included
InitFeed == new(Feeds, {PlainTicks})

\* QuestDbMarket::next_event
next_event ==
    /\ Running
    /\ \E peeked \in peek_next_event :
        /\ IF peeked.tag = "err"
           THEN /\ ret' = Call("next_event", <<>>, peeked, <<>>)
                /\ UNCHANGED <<time, market_time, delivered>>
           ELSE IF peeked.val = None
           THEN /\ ret' = Call("next_event", <<>>, Ok(None), <<>>)
                /\ UNCHANGED <<time, market_time, delivered>>
           ELSE LET t == peeked.val[2][1]
                    event == peeked.val[2][2]
                    u == update(market_time, event)
                IN  /\ time' = t
                    /\ market_time' = u.mt
                    /\ ret' = Call("next_event", <<>>,
                                   IF u.ok THEN Ok(Some(<<t, event>>))
                                   ELSE Err(u.err), <<>>)
                    /\ delivered' = IF u.ok
                                    THEN Append(delivered, <<t, event>>)
                                    ELSE delivered
        /\ run' = NoRun
        /\ UNCHANGED <<events, cash, holdings, system_events, ticks, trades>>

\* the test of next_event_or_tick with < for <=
due_strict(t, next_tick) == t < next_tick

\* the test of next_event_or_tick: the peeked event comes before the tick
due(t, next_tick) == t <= next_tick

\* duration_trunc that lands one tick early
duration_trunc_early(t, tick) == t - (t % tick) - tick

\* DurationRound::duration_trunc of a non-negative timestamp, 0 < tick
duration_trunc(t, tick) == t - (t % tick)

\* DurationRound::duration_trunc answers a duration that is zero or
\* negative with a RoundingError
RoundingError(tick) == tick <= 0

\* QuestDbMarket::next_event_or_tick
next_event_or_tick(tick) ==
    /\ Running
    /\ IF RoundingError(tick)
       THEN \* duration_trunc(tick).unwrap() panics
            /\ ret' = Call("next_event_or_tick", <<tick>>, Panic, <<>>)
            /\ run' = NoRun
            /\ UNCHANGED <<time, market_time, delivered>>
       ELSE
        LET next_tick == duration_trunc(time, tick) + tick
        IN  /\ next_tick <= MaxTime
            /\ \E peeked \in peek_next_event :
                LET args == <<tick>>
                IN  IF peeked.tag = "err"
                    THEN /\ ret' = Call("next_event_or_tick", args, peeked,
                                        <<>>)
                         /\ run' = NoRun
                         /\ UNCHANGED <<time, market_time, delivered>>
                    ELSE IF peeked.val # None
                            /\ due(peeked.val[2][1], next_tick)
                    THEN LET t == peeked.val[2][1]
                             event == peeked.val[2][2]
                             u == update(market_time, event)
                         IN  IF u.ok
                             THEN /\ market_time' = u.mt
                                  /\ time' = t
                                  /\ ret' = Call("next_event_or_tick", args,
                                                 Ok(<<t, event>>), <<>>)
                                  /\ run' = Repeated(tick)
                                  /\ delivered' =
                                       Append(delivered, <<t, event>>)
                             ELSE /\ market_time' = u.mt
                                  /\ ret' = Call("next_event_or_tick", args,
                                                 Err(u.err), <<>>)
                                  /\ run' = NoRun
                                  /\ UNCHANGED <<time, delivered>>
                    ELSE /\ time' = next_tick
                         /\ ret' = Call("next_event_or_tick", args,
                                        Ok(<<next_tick, "Tick">>), <<>>)
                         /\ run' = Repeated(tick)
                         /\ UNCHANGED <<market_time, delivered>>
    /\ UNCHANGED <<events, cash, holdings, system_events, ticks, trades>>

\* the query of price_at with ORDER BY timestamp ASC
price_query_first(micros, symbol) ==
    LET rows == {r \in ticks : r.ts <= micros /\ r.symbol = symbol}
    IN  {r \in rows : \A o \in rows : o.ts >= r.ts}

\* the query of price_at without timestamp <= $1
price_query_any(micros, symbol) ==
    LET rows == {r \in ticks : r.symbol = symbol}
    IN  {r \in rows : \A o \in rows : o.ts <= r.ts}

\* SELECT * FROM ticks WHERE timestamp <= $1 AND symbol = $2 ORDER BY
\* timestamp DESC LIMIT 1: the rows the database answers with
price_query(micros, symbol) ==
    LET rows == {r \in ticks : r.ts <= micros /\ r.symbol = symbol}
    IN  {r \in rows : \A o \in rows : o.ts <= r.ts}

\* the test of price_at, one unit late
future_late(t, now) == t > now + 1

\* the test of price_at: the requested instant lies after the clock
future(t, now) == t > now

\* what the store receives of one lookup
Lookup(symbol, micros) == [symbol |-> symbol, timestamp |-> micros]

\* QuestDbMarket::price_at: the results the call may have, each with the
\* lookups it sent to the store
price_at(symbol, t) ==
    IF future(t, time)
    THEN {[result |-> Err(FutureQuery(t, time)), queries |-> <<>>]}
    ELSE LET micros == timestamp_micros(t)
             rows == price_query(micros, symbol)
             sent == <<Lookup(symbol, micros)>>
         IN  {[result |-> Err(DatabaseError), queries |-> sent]} \cup
             (IF rows = {}
              THEN {[result |-> Err(UnknownPrice(symbol)), queries |-> sent]}
              ELSE {[result |-> Ok(r.close), queries |-> sent] : r \in rows})

\* current_price that asks for the price at the epoch
current_price_stale(symbol) == price_at(symbol, 0)

\* Market::current_price
current_price(symbol) == price_at(symbol, time)

\* a price_at that sets the clock to the instant it was asked about
PriceAt_moving(symbol, t) ==
    /\ Running
    /\ \E p \in price_at(symbol, t) :
           ret' = Call("price_at", <<symbol, t>>, p.result, p.queries)
    /\ time' = IF future(t, time) THEN time ELSE t
    /\ run' = NoRun
    /\ UNCHANGED <<market_time, events, cash, holdings, system_events, ticks,
                   delivered, trades>>

\* the call price_at(symbol, t) of a client
PriceAt(symbol, t) ==
    /\ Running
    /\ \E p \in price_at(symbol, t) :
           ret' = Call("price_at", <<symbol, t>>, p.result, p.queries)
    /\ run' = NoRun
    /\ UNCHANGED <<time, market_time, events, cash, holdings, system_events,
                   ticks, delivered, trades>>

\* the call current_price(symbol) of a client
CurrentPrice(symbol) ==
    /\ Running
    /\ \E p \in current_price(symbol) :
           ret' = Call("current_price", <<symbol>>, p.result, p.queries)
    /\ run' = NoRun
    /\ UNCHANGED <<time, market_time, events, cash, holdings, system_events,
                   ticks, delivered, trades>>

\* u32 addition: the sum does not fit
overflows(a, b) == a + b > MaxShares
\* u32 addition in a build without overflow checks
wrapping_add(a, b) == (a + b) % (MaxShares + 1)

\* QuestDbMarket::buy_at_market
buy_at_market(symbol, quantity) ==
    /\ Running
    /\ IF ~is_open(market_time)
       THEN /\ ret' = Call("buy_at_market", <<symbol, quantity>>,
                           Err(UntimelyTrade(symbol, time)), <<>>)
            /\ UNCHANGED <<cash, holdings, trades>>
       ELSE \E p \in current_price(symbol) :
            IF p.result.tag = "err"
            THEN /\ ret' = Call("buy_at_market", <<symbol, quantity>>,
                                p.result, p.queries)
                 /\ UNCHANGED <<cash, holdings, trades>>
            ELSE LET total_price == p.result.val * quantity
                 IN  IF total_price > cash
                     THEN /\ ret' = Call("buy_at_market", <<symbol, quantity>>,
                                Err(InsufficientCash(quantity, symbol,
                                                     total_price, cash)),
                                p.queries)
                          /\ UNCHANGED <<cash, holdings, trades>>
                     ELSE /\ trades < MaxTrades
                          /\ trades' = trades + 1
                          /\ cash' = cash - total_price
                          /\ IF symbol \notin DOMAIN holdings
                             THEN /\ holdings' =
                                       [s \in DOMAIN holdings \cup {symbol} |->
                                          IF s = symbol THEN quantity
                                          ELSE holdings[s]]
                                  /\ ret' = Call("buy_at_market",
                                                 <<symbol, quantity>>,
                                                 Ok(<<>>), p.queries)
                             ELSE IF ~overflows(holdings[symbol], quantity)
                             THEN /\ holdings' = [holdings EXCEPT
                                                    ![symbol] = @ + quantity]
                                  /\ ret' = Call("buy_at_market",
                                                 <<symbol, quantity>>,
                                                 Ok(<<>>), p.queries)
                             ELSE \* *v += quantity overflows: it wraps, or
                                  \* it panics in a build with overflow checks
                                  \/ /\ holdings' = [holdings EXCEPT
                                           ![symbol] =
                                              wrapping_add(@, quantity)]
                                     /\ ret' = Call("buy_at_market",
                                                    <<symbol, quantity>>,
                                                    Ok(<<>>), p.queries)
                                  \/ /\ UNCHANGED holdings
                                     /\ ret' = Call("buy_at_market",
                                                    <<symbol, quantity>>,
                                                    Panic, p.queries)
    /\ run' = NoRun
    /\ UNCHANGED <<time, market_time, events, system_events, ticks, delivered>>

\* QuestDbMarket::sell_at_market
sell_at_market(symbol, quantity) ==
    /\ Running
    /\ IF ~is_open(market_time)
       THEN /\ ret' = Call("sell_at_market", <<symbol, quantity>>,
                           Err(UntimelyTrade(symbol, time)), <<>>)
            /\ UNCHANGED <<cash, holdings, trades>>
       ELSE \E p \in current_price(symbol) :
            IF p.result.tag = "err"
            THEN /\ ret' = Call("sell_at_market", <<symbol, quantity>>,
                                p.result, p.queries)
                 /\ UNCHANGED <<cash, holdings, trades>>
            ELSE LET total_price == p.result.val * quantity
                 IN  IF symbol \notin DOMAIN holdings
                     THEN /\ ret' = Call("sell_at_market", <<symbol, quantity>>,
                                Err(InsufficientShares(quantity, symbol, 0)),
                                p.queries)
                          /\ UNCHANGED <<cash, holdings, trades>>
                     ELSE IF quantity > holdings[symbol]
                     THEN /\ ret' = Call("sell_at_market", <<symbol, quantity>>,
                                Err(InsufficientShares(quantity, symbol,
                                                       holdings[symbol])),
                                p.queries)
                          /\ UNCHANGED <<cash, holdings, trades>>
                     ELSE /\ trades < MaxTrades
                          /\ trades' = trades + 1
                          /\ cash' = cash + total_price
                          /\ holdings' = [holdings EXCEPT
                                            ![symbol] = @ - quantity]
                          /\ ret' = Call("sell_at_market",
                                         <<symbol, quantity>>, Ok(<<>>),
                                         p.queries)
    /\ run' = NoRun
    /\ UNCHANGED <<time, market_time, events, system_events, ticks, delivered>>

\* the held symbols in the order holdings() yields them
RECURSIVE Held(_)
Held(symbols) ==
    IF symbols = {} THEN <<>>
    ELSE LET s == CHOOSE x \in symbols : TRUE
         IN  <<s>> \o Held(symbols \ {s})

\* a sum that keeps the last term only
Sum_last(xs) == IF xs = <<>> THEN 0 ELSE xs[Len(xs)]

\* Iterator::sum over the worth of each holding
RECURSIVE Sum(_)
Sum(xs) == IF xs = <<>> THEN 0 ELSE Head(xs) + Sum(Tail(xs))

\* Market::net_worth
net_worth ==
    /\ Running
    /\ LET held == Held(DOMAIN holdings)
           \* one current_price per held symbol, joined by try_join_all
           joined == {ps \in [1..Len(held) -> UNION {current_price(s) :
                                                     s \in DOMAIN holdings}] :
                        \A i \in 1..Len(held) :
                            ps[i] \in current_price(held[i])}
       IN  \E ps \in joined :
           LET sent == [i \in 1..Len(held) |-> ps[i].queries[1]]
               failed == {i \in 1..Len(held) : ps[i].result.tag = "err"}
           IN  IF failed # {}
               THEN \E i \in failed :
                      ret' = Call("net_worth", <<>>, ps[i].result, sent)
               ELSE LET individual_holding_worth ==
                          [i \in 1..Len(held) |->
                             ps[i].result.val * holdings[held[i]]]
                        gross_holdings_worth == Sum(individual_holding_worth)
                    IN  ret' = Call("net_worth", <<>>,
                                    Ok(gross_holdings_worth + cash), sent)
    /\ run' = NoRun
    /\ UNCHANGED <<time, market_time, events, cash, holdings, system_events,
                   ticks, delivered, trades>>

\* MarketTime::update called on the copy that market_time() hands out
Update(event) ==
    /\ Running
    /\ LET u == update(market_time, event)
       IN  ret' = Call("update", <<event>>,
                       [tag |-> IF u.ok THEN "ok" ELSE "err", val |-> u.mt,
                        err |-> u.err], <<>>)
    /\ run' = NoRun
    /\ UNCHANGED <<time, market_time, events, cash, holdings, system_events,
                   ticks, delivered, trades>>

Next ==
    \/ next_event
    \/ \E tick \in TickDurations : next_event_or_tick(tick)
    \/ \E symbol \in Symbols, t \in 0..MaxTime : PriceAt(symbol, t)
    \/ \E symbol \in Symbols : CurrentPrice(symbol)
    \/ \E symbol \in Symbols, quantity \in Quantities :
          buy_at_market(symbol, quantity)
    \/ \E symbol \in Symbols, quantity \in Quantities :
          sell_at_market(symbol, quantity)
    \/ net_worth
    \/ \E event \in Event : Update(event)

\* every call of the Market trait, over a session calendar
Spec == Init /\ [][Next]_vars

\* the calls that advance the clock and the phase, over any feed
NextFeed ==
    \/ next_event
    \/ \E tick \in TickDurations : next_event_or_tick(tick)
    \/ \E event \in Event : Update(event)

SpecFeed == InitFeed /\ [][NextFeed]_vars

\* a driver that only calls next_event_or_tick, over any feed
NextTick == \E tick \in TickDurations : next_event_or_tick(tick)

SpecTick == InitFeed /\ [][NextTick]_vars

\* a driver that advances the clock, over any feed
NextAdvance ==
    \/ next_event
    \/ \E tick \in TickDurations : next_event_or_tick(tick)

\* an advancement that succeeds and returns an event or a tick
Advance == NextAdvance /\ ret'.result.tag = "ok" /\ time' # time

\* a driver that goes on advancing the clock for as long as it can
SpecProgress == InitFeed /\ [][NextAdvance]_vars /\ WF_vars(Advance)

\* a market over a session calendar and prices of either sign
InitLedger == new(Calendars, {SignedTicks})

\* a strategy that moves the clock, trades and values its portfolio
NextLedger ==
    \/ next_event
    \/ \E tick \in TickDurations : next_event_or_tick(tick)
    \/ \E symbol \in Symbols, quantity \in Quantities :
          buy_at_market(symbol, quantity)
    \/ \E symbol \in Symbols, quantity \in Quantities :
          sell_at_market(symbol, quantity)
    \/ net_worth

SpecLedger == InitLedger /\ [][NextLedger]_vars

\* a market over a session calendar that opens before B has a price
InitPrice == new(Calendars, {LateTicks})

\* a strategy that moves the clock, asks for prices and trades
NextPrice ==
    \/ next_event
    \/ \E tick \in TickDurations : next_event_or_tick(tick)
    \/ \E symbol \in Symbols, t \in 0..MaxTime : PriceAt(symbol, t)
    \/ \E symbol \in Symbols, quantity \in Quantities :
          buy_at_market(symbol, quantity)
    \/ \E symbol \in Symbols, quantity \in Quantities :
          sell_at_market(symbol, quantity)

SpecPrice == InitPrice /\ [][NextPrice]_vars

\* a call that assigns its clock before it awaits the store
until_await_eager(op, args) ==
    [time |-> IF op = "next_event_or_tick"
              THEN duration_trunc(time, args[1]) + args[1] ELSE time,
     market_time |-> market_time, cash |-> cash, holdings |-> holdings]

\* what next_event, next_event_or_tick, buy_at_market and sell_at_market
\* have made of the market when they reach their one await, the feed peek
\* or the price lookup: every assignment to self follows it
until_await(op, args) ==
    [time |-> time, market_time |-> market_time, cash |-> cash,
     holdings |-> holdings]

\* the future of a call is polled up to its await and dropped there
Abandon(op, args) ==
    /\ Running
    /\ op \in {"buy_at_market", "sell_at_market"} => is_open(market_time)
    /\ op = "next_event_or_tick" => ~RoundingError(args[1])
    /\ LET reached == until_await(op, args)
       IN  /\ time' = reached.time
           /\ market_time' = reached.market_time
           /\ cash' = reached.cash
           /\ holdings' = reached.holdings
    /\ ret' = Call(op, args, Cancelled,
                   IF op \in {"buy_at_market", "sell_at_market"}
                   THEN <<Lookup(args[1], timestamp_micros(time))>>
                   ELSE <<>>)
    /\ run' = NoRun
    /\ UNCHANGED <<events, system_events, ticks, delivered, trades>>

\* a strategy whose calls run to their end or are cancelled
NextCancel ==
    \/ next_event
    \/ \E tick \in TickDurations : next_event_or_tick(tick)
    \/ \E symbol \in Symbols, quantity \in Quantities :
          buy_at_market(symbol, quantity)
    \/ \E symbol \in Symbols, quantity \in Quantities :
          sell_at_market(symbol, quantity)
    \/ Abandon("next_event", <<>>)
    \/ \E tick \in TickDurations : Abandon("next_event_or_tick", <<tick>>)
    \/ \E op \in {"buy_at_market", "sell_at_market"}, symbol \in Symbols,
          quantity \in Quantities : Abandon(op, <<symbol, quantity>>)

SpecCancel == InitLedger /\ [][NextCancel]_vars

\* ---------------------------------------------------------------- claims
\* the session-event feed as its contract states it, in units of time
EventOf(kind) ==
    CASE kind = "system_hours_start" -> "PreMarketStart"
      [] kind = "regular_hours_start" -> "RegularMarketStart"
      [] kind = "regular_hours_end" -> "RegularMarketEnd"
      [] kind = "system_hours_end" -> "PostMarketEnd"
PendingAfter(c) ==
    {i \in 1..Len(system_events) : system_events[i].ts * Micro > c}
EarliestAfter(c) ==
    {i \in PendingAfter(c) :
        \A j \in PendingAfter(c) : system_events[i].ts <= system_events[j].ts}
Delivery(i) == <<system_events[i].ts * Micro, EventOf(system_events[i].kind)>>

\* the transition table of the session phase
Target(event) ==
    CASE event = "PreMarketStart" -> "PreMarket"
      [] event = "RegularMarketStart" -> "Regular"
      [] event = "RegularMarketEnd" -> "PostMarket"
      [] event = "PostMarketEnd" -> "NotTrading"
Legal(phase, event) ==
    <<phase, event>> \in {<<"NotTrading", "PreMarketStart">>,
                          <<"PreMarket", "RegularMarketStart">>,
                          <<"Regular", "RegularMarketEnd">>,
                          <<"PostMarket", "PostMarketEnd">>}

Failed == ret.result.tag = "err"
\* the timestamp and the event that the last call handed to its caller
Delivered ==
    IF ret.op = "next_event_or_tick" /\ ret.result.tag = "ok"
    THEN ret.result.val
    ELSE IF ret.op = "next_event" /\ ret.result.tag = "ok"
            /\ ret.result.val # None
    THEN ret.result.val[2]
    ELSE <<>>
Succeeded == ret.result.tag = "ok"
ClockAndPhaseAsBefore ==
    time = ret.pre.time /\ market_time = ret.pre.market_time
LedgerAsBefore == cash = ret.pre.cash /\ holdings = ret.pre.holdings
CursorAsBefore ==
    /\ events = ret.pre.events
    /\ EarliestAfter(time) = EarliestAfter(ret.pre.time)

\* C1: price_at(symbol, t) with t after the clock fails with
\* FutureQuery{t, time()}, sends no lookup to the store and leaves the clock,
\* the phase and the ledger as they were.
C1_FutureQueryBeforeLookup ==
    (ret.op = "price_at" /\ ret.args[2] > ret.pre.time) =>
        /\ ret.result = Err(FutureQuery(ret.args[2], ret.pre.time))
        /\ ret.queries = <<>>
        /\ ClockAndPhaseAsBefore
        /\ LedgerAsBefore

\* a future price that the store holds was asked for and refused
C1_Witness ==
    /\ ret.op = "price_at"
    /\ ret.args[2] > ret.pre.time
    /\ \E r \in ticks : r.symbol = ret.args[1] /\ r.ts * Micro = ret.args[2]
    /\ ret.result.err[1] = "FutureQuery"

\* C2: every lookup that reaches the store, whichever call sends it, asks
\* for an instant that is no later than time() when it is sent.
C2_NoLookahead ==
    \A i \in 1..Len(ret.queries) :
        ret.queries[i].timestamp * Micro <= ret.pre.time

\* a trade looked a price up while the clock stood between two microseconds
C2_Witness ==
    /\ ret.op \in {"buy_at_market", "sell_at_market", "net_worth"}
    /\ ret.queries # <<>>
    /\ ret.pre.time % Micro # 0

\* C3: no call, successful or failed, moves the clock backwards.
C3_ClockMonotone == [][time' >= time]_vars

\* a tick moved the clock forward from an instant off the tick boundary
C3_Witness ==
    /\ ret.op = "next_event_or_tick"
    /\ Succeeded
    /\ ret.pre.time % ret.args[1] # 0
    /\ time > ret.pre.time

\* C4: update follows the transition table: each legal pair moves to its
\* target phase, from Unknown every boundary event moves to its target
\* phase, and Tick succeeds in every phase and leaves it alone.
C4_TransitionTable ==
    /\ ret.op = "update" =>
         LET phase == ret.pre.market_time
             event == ret.args[1]
         IN  /\ event = "Tick" => Succeeded /\ ret.result.val = phase
             /\ (event # "Tick" /\ (Legal(phase, event) \/ phase = "Unknown"))
                  => Succeeded /\ ret.result.val = Target(event)
    /\ (Delivered # <<>> /\ Delivered[2] # "Tick") =>
         /\ Legal(ret.pre.market_time, Delivered[2])
              \/ ret.pre.market_time = "Unknown"
         /\ market_time = Target(Delivered[2])

\* the closed session was opened by PreMarketStart
C4_Witness ==
    /\ ret.op = "update"
    /\ ret.pre.market_time = "NotTrading"
    /\ ret.args[1] = "PreMarketStart"
    /\ ret.result.val = "PreMarket"

\* C5: in a phase other than Unknown, a boundary event that is not the
\* phase's legal transition fails with MarketTimeSkip carrying that event
\* and that phase, and the phase is the same after the failed call.
C5_IllegalEventRejected ==
    /\ (/\ ret.op = "update"
        /\ ret.pre.market_time # "Unknown"
        /\ ret.args[1] # "Tick"
        /\ ~Legal(ret.pre.market_time, ret.args[1])) =>
         /\ Failed
         /\ ret.result.err = MarketTimeSkip(ret.args[1], ret.pre.market_time)
         /\ ret.result.val = ret.pre.market_time
    /\ (/\ ret.op \in {"next_event", "next_event_or_tick"}
        /\ ret.result.err[1] = "MarketTimeSkip") =>
         /\ ret.result.err[3] = ret.pre.market_time
         /\ ret.pre.market_time # "Unknown"
         /\ ~Legal(ret.pre.market_time, ret.result.err[2])
         /\ market_time = ret.pre.market_time

\* PreMarketStart was fed to the Regular phase and refused
C5_Witness ==
    /\ ret.op = "update"
    /\ ret.pre.market_time = "Regular"
    /\ ret.args[1] = "PreMarketStart"
    /\ Failed
    /\ ret.result.val = "Regular"

C7_TieBreakScenario ==
    (/\ ret.op = "next_event_or_tick"
     /\ Succeeded
     /\ run.k \in {1, 2}
     /\ run.start % run.tick = 0
     /\ ret.pre.market_time = "Regular"
     /\ Cardinality(PendingAfter(run.start)) = 1
     /\ \A i \in PendingAfter(run.start) :
           Delivery(i) = <<run.start + run.tick, "RegularMarketEnd">>) =>
        /\ run.k = 1 => /\ ret.result.val = <<run.start, "Tick">>
                        /\ market_time = "Regular"
        /\ run.k = 2 => /\ ret.result.val = <<run.start + run.tick,
                                              "RegularMarketEnd">>
                        /\ market_time = "PostMarket"

\* C8: with no feed event pending, the k-th next_event_or_tick(d) in a row
\* returns the Tick at B + (k - 1) * d, B the first d-boundary at or after
\* the instant the calls started from, and time() is that timestamp.
C8_TickSchedule ==
    (/\ ret.op = "next_event_or_tick"
     /\ Succeeded
     /\ run.k >= 1
     /\ PendingAfter(run.start) = {}) =>
        LET d == run.tick
            B == ((run.start + d - 1) \div d) * d
        IN  /\ ret.result.val = <<B + (run.k - 1) * d, "Tick">>
            /\ time = B + (run.k - 1) * d

\* C9: a failed next_event_or_tick leaves the clock, the phase, the feed
\* cursor and the ledger as they were before the call.
C9_FailedTickIsNoOp ==
    (ret.op = "next_event_or_tick" /\ Failed) =>
        /\ ClockAndPhaseAsBefore
        /\ CursorAsBefore
        /\ LedgerAsBefore

\* next_event_or_tick peeked an event that is illegal in the phase
C9_Witness ==
    /\ ret.op = "next_event_or_tick"
    /\ Failed
    /\ ret.result.err[1] = "MarketTimeSkip"
    /\ EarliestAfter(time) # {}

\* C10: a failed next_event leaves the clock, the phase and the feed cursor
\* as they were before the call.
C10_FailedNextEventIsNoOp ==
    (ret.op = "next_event" /\ Failed) =>
        /\ ClockAndPhaseAsBefore
        /\ CursorAsBefore

\* C11: next_event never returns a Tick.  When a feed event lies strictly
\* after the clock, a successful call returns the earliest such event, sets
\* the clock to its timestamp and applies it to the phase, so that the feed
\* events left for the call that follows are the later ones; when the feed
\* is exhausted it returns none and leaves the clock, the phase and the
\* ledger as they were.
C11_NextEvent ==
    (ret.op = "next_event" /\ Succeeded) =>
        LET next == EarliestAfter(ret.pre.time)
        IN  IF next # {}
            THEN /\ \E i \in next : ret.result.val = Some(Delivery(i))
                 /\ ret.result.val[2][2] # "Tick"
                 /\ time = ret.result.val[2][1]
                 /\ market_time = Target(ret.result.val[2][2])
                 /\ PendingAfter(time) =
                      {j \in PendingAfter(ret.pre.time) :
                          Delivery(j)[1] > ret.result.val[2][1]}
            ELSE /\ ret.result.val = None
                 /\ ClockAndPhaseAsBefore
                 /\ LedgerAsBefore

\* next_event returned the earlier of two feed events that lay ahead
C11_Witness ==
    /\ ret.op = "next_event"
    /\ Succeeded
    /\ ret.result.val # None
    /\ \E i, j \in PendingAfter(ret.pre.time) :
          system_events[i].ts < system_events[j].ts

\* C12: in the events that successive next_event_or_tick calls return, a
\* Tick with timestamp T is returned only when no feed event with a timestamp
\* at or before T is still undelivered, and no feed event is returned with a
\* timestamp at or before that of a Tick returned earlier.
C12_EventBeforeTick ==
    (ret.op = "next_event_or_tick" /\ Succeeded) =>
        /\ ret.result.val[2] = "Tick" =>
             Cardinality({i \in 1..Len(system_events) :
                            system_events[i].ts * Micro <= ret.result.val[1]})
               = Len(delivered)
        /\ ret.result.val[2] # "Tick" => ret.result.val[1] > ret.pre.time

\* the price store as its contract states it: the last price of a symbol
\* recorded at or before an instant, in units of time
Recorded(symbol, t) == {r \in ticks : r.symbol = symbol /\ r.ts * Micro <= t}
Known(symbol, t) == Recorded(symbol, t) # {}
PriceOf(symbol, t) ==
    (CHOOSE r \in Recorded(symbol, t) :
        \A o \in Recorded(symbol, t) : o.ts <= r.ts).close
SharesBefore(symbol) ==
    IF symbol \in DOMAIN ret.pre.holdings THEN ret.pre.holdings[symbol] ELSE 0
Trade == ret.op \in {"buy_at_market", "sell_at_market"}

\* C13: a successful buy_at_market(symbol, q) at price p takes p * q from
\* the cash and adds q to the shares of symbol, creating the entry when
\* there was none; a buy whose cost equals the cash is not refused.
C13_BuyExecutes ==
    /\ (ret.op = "buy_at_market" /\ Succeeded) =>
         LET symbol == ret.args[1]
             q == ret.args[2]
             p == PriceOf(symbol, ret.pre.time)
         IN  /\ cash = ret.pre.cash - p * q
             /\ symbol \in DOMAIN holdings
             /\ holdings[symbol] = SharesBefore(symbol) + q
    /\ (/\ ret.op = "buy_at_market"
        /\ is_open(ret.pre.market_time)
        /\ Known(ret.args[1], ret.pre.time)
        /\ PriceOf(ret.args[1], ret.pre.time) * ret.args[2] = ret.pre.cash) =>
         Succeeded \/ ret.result = Err(DatabaseError)

\* C14: a successful sell_at_market(symbol, q) at price p adds p * q to the
\* cash, takes q from the shares of symbol and changes the holding of no
\* other symbol.
C14_SellExecutes ==
    (ret.op = "sell_at_market" /\ Succeeded) =>
        LET symbol == ret.args[1]
            q == ret.args[2]
            p == PriceOf(symbol, ret.pre.time)
        IN  /\ cash = ret.pre.cash + p * q
            /\ DOMAIN holdings = DOMAIN ret.pre.holdings
            /\ holdings[symbol] = ret.pre.holdings[symbol] - q
            /\ \A s \in DOMAIN holdings \ {symbol} :
                  holdings[s] = ret.pre.holdings[s]

\* a share bought at one price was sold after the price had changed
C14_Witness ==
    /\ ret.op = "sell_at_market"
    /\ Succeeded
    /\ ret.args[2] > 0
    /\ \E r \in Recorded(ret.args[1], ret.pre.time) :
          r.close # PriceOf(ret.args[1], ret.pre.time)

\* C15: in an open session with a known price p, buy_at_market(symbol, q)
\* fails with InsufficientCash exactly when p * q exceeds the cash, and that
\* failure leaves the cash and the holdings, a missing entry included, as
\* they were.
C15_InsufficientCash ==
    (/\ ret.op = "buy_at_market"
     /\ is_open(ret.pre.market_time)
     /\ Known(ret.args[1], ret.pre.time)
     /\ ret.result # Err(DatabaseError)) =>
        LET symbol == ret.args[1]
            q == ret.args[2]
            total == PriceOf(symbol, ret.pre.time) * q
        IN  IF total > ret.pre.cash
            THEN /\ ret.result =
                      Err(InsufficientCash(q, symbol, total, ret.pre.cash))
                 /\ LedgerAsBefore
            ELSE ret.result.err[1] # "InsufficientCash"

\* a buy of a symbol that is not held was refused for want of cash
C15_Witness ==
    /\ ret.op = "buy_at_market"
    /\ ret.result.err[1] = "InsufficientCash"
    /\ ret.args[1] \notin DOMAIN holdings
    /\ ret.args[2] <= MaxQuantity

\* C16: in an open session, sell_at_market(symbol, q) with q above the
\* shares owned (none for a symbol without an entry) fails with
\* InsufficientShares carrying q, the symbol and the shares owned, whatever
\* the price lookup would answer, and leaves the ledger as it was.
C16_InsufficientShares ==
    (/\ ret.op = "sell_at_market"
     /\ is_open(ret.pre.market_time)
     /\ ret.args[2] > SharesBefore(ret.args[1])) =>
        /\ ret.result = Err(InsufficientShares(ret.args[2], ret.args[1],
                                               SharesBefore(ret.args[1])))
        /\ LedgerAsBefore

OpenPhases == {"PreMarket", "Regular", "PostMarket"}

\* C17: in a phase other than PreMarket, Regular and PostMarket, both trades
\* fail with UntimelyTrade carrying the symbol and time(), send nothing to
\* the price store and leave the ledger as it was; the ledger changes only
\* in a trade made in one of those three phases, so one that differs from
\* the initial ledger has had such a trade executed.
C17_UntimelyTrade ==
    /\ (Trade /\ ret.pre.market_time \notin OpenPhases) =>
         /\ ret.result = Err(UntimelyTrade(ret.args[1], ret.pre.time))
         /\ time = ret.pre.time
         /\ ret.queries = <<>>
         /\ LedgerAsBefore
    /\ ~LedgerAsBefore => Trade /\ ret.pre.market_time \in OpenPhases
    /\ (cash # InitialCash \/ holdings # <<>>) => trades > 0

\* a buy the cash could pay for was refused while the session was closed
C17_Witness ==
    /\ ret.op = "buy_at_market"
    /\ ret.pre.market_time = "NotTrading"
    /\ ret.args[2] > 0
    /\ PriceOf(ret.args[1], ret.pre.time) * ret.args[2] <= ret.pre.cash
    /\ ret.result.err[1] = "UntimelyTrade"

\* C18: after every successful buy_at_market and sell_at_market the cash is
\* at least 0 and every share count is at least 0, whatever price the store
\* answers with.
C18_LedgerNonNegative ==
    (Trade /\ Succeeded) =>
        /\ cash >= 0
        /\ \A s \in DOMAIN holdings : holdings[s] >= 0

\* the worth of the shares held of a set of symbols at the price of now
RECURSIVE Valuation(_)
Valuation(symbols) ==
    IF symbols = {} THEN 0
    ELSE LET s == CHOOSE x \in symbols : TRUE
         IN  holdings[s] * PriceOf(s, time) + Valuation(symbols \ {s})

\* C19: net_worth returns the cash when nothing is held and otherwise the
\* cash plus, over the held symbols, the shares times the current price,
\* asking the price of each held symbol once; it fails only with the error
\* of one of those lookups, and it never changes the clock, the phase or
\* the ledger.
C19_NetWorth ==
    ret.op = "net_worth" =>
        /\ ClockAndPhaseAsBefore
        /\ LedgerAsBefore
        /\ Len(ret.queries) = Cardinality(DOMAIN holdings)
        /\ \A s \in DOMAIN holdings :
              \E i \in 1..Len(ret.queries) :
                 ret.queries[i] = Lookup(s, timestamp_micros(time))
        /\ Succeeded =>
             /\ ret.result.val = cash + Valuation(DOMAIN holdings)
             /\ holdings = <<>> => ret.result.val = cash
        /\ Failed =>
             /\ holdings # <<>>
             /\ \/ ret.result.err = DatabaseError
                \/ \E s \in DOMAIN holdings :
                      /\ ~Known(s, time)
                      /\ ret.result.err = UnknownPrice(s)
        /\ (\E s \in DOMAIN holdings : ~Known(s, time)) => Failed

\* the worth of a portfolio of two symbols, each with shares, was computed
C19_Witness ==
    /\ ret.op = "net_worth"
    /\ Succeeded
    /\ \A s \in Symbols : s \in DOMAIN holdings /\ holdings[s] > 0
    /\ ret.result.val # cash

InvalidTickGranularity == <<"InvalidTickGranularity">>

\* C20: next_event_or_tick(d) with d zero or negative returns the error
\* InvalidTickGranularity as a value, without unwinding, and leaves the
\* clock, the phase, the feed cursor and the ledger as they were.
C20_InvalidTickGranularity ==
    (ret.op = "next_event_or_tick" /\ ret.args[1] <= 0) =>
        /\ ret.result = Err(InvalidTickGranularity)
        /\ ClockAndPhaseAsBefore
        /\ CursorAsBefore
        /\ LedgerAsBefore

\* C21: price_at(symbol, t) with t no later than the clock and no price of
\* the symbol recorded at or before t fails with UnknownPrice(symbol) and
\* answers with no other value; a price it does answer with is the recorded
\* one.  A trade in an open session whose price lookup fails so, or fails in
\* the store, fails with that error and leaves the cash and the holdings as
\* they were.
C21_UnknownPrice ==
    /\ (ret.op = "price_at" /\ ret.args[2] <= ret.pre.time) =>
         IF Known(ret.args[1], ret.args[2])
         THEN \/ ret.result = Ok(PriceOf(ret.args[1], ret.args[2]))
              \/ ret.result = Err(DatabaseError)
         ELSE \/ ret.result = Err(UnknownPrice(ret.args[1]))
              \/ ret.result = Err(DatabaseError)
    /\ (Trade /\ ret.pre.market_time \in OpenPhases) =>
         /\ ~Known(ret.args[1], ret.pre.time) =>
              \/ ret.result = Err(UnknownPrice(ret.args[1]))
              \/ ret.result = Err(DatabaseError)
         /\ ret.result.err[1] \in {"UnknownPrice", "DatabaseError"} =>
              LedgerAsBefore

\* a trade in an open session failed for the missing price of its symbol
C21_Witness ==
    /\ Trade
    /\ ret.pre.market_time \in OpenPhases
    /\ ret.result = Err(UnknownPrice(ret.args[1]))
    /\ cash = InitialCash

\* C22: a next_event, next_event_or_tick, buy_at_market or sell_at_market
\* that is abandoned at its suspension point, the feed peek or the price
\* lookup, leaves the clock, the phase and the ledger as they were before
\* the call.
C22_CancelIsNoOp ==
    ret.result = Cancelled =>
        /\ ClockAndPhaseAsBefore
        /\ LedgerAsBefore

\* a next_event_or_tick was dropped at its feed peek, after trades had
\* changed the ledger
C22_Witness ==
    /\ ret.result = Cancelled
    /\ ret.op = "next_event_or_tick"
    /\ holdings # <<>>
    /\ cash # InitialCash

\* C23: next_event and next_event_or_tick, successful or failed, change
\* neither the cash nor a holding; price_at, current_price, net_worth,
\* buy_at_market and sell_at_market, successful or failed, change neither
\* the clock nor the phase; a next_event_or_tick that returns a Tick leaves
\* the phase alone.
C23_Frame ==
    /\ ret.op \in {"next_event", "next_event_or_tick"} => LedgerAsBefore
    /\ ret.op \in {"price_at", "current_price", "net_worth", "buy_at_market",
                   "sell_at_market"} => ClockAndPhaseAsBefore
    /\ (ret.op = "next_event_or_tick" /\ Succeeded
        /\ ret.result.val[2] = "Tick") => market_time = ret.pre.market_time

\* a tick was returned in an open session to a market that holds shares
C23_Witness ==
    /\ ret.op = "next_event_or_tick"
    /\ Succeeded
    /\ ret.result.val[2] = "Tick"
    /\ market_time \in OpenPhases
    /\ \E s \in DOMAIN holdings : holdings[s] > 0

\* C24: the phase is Unknown until the first boundary event is applied and
\* never after; from then on it is the target of the last event delivered,
\* and each event delivered after the first is the legal transition of the
\* phase the one before it led to, so that the phase moves one step at a
\* time along NotTrading, PreMarket, Regular, PostMarket, NotTrading.
C24_PhaseCycle ==
    /\ market_time = "Unknown" <=> delivered = <<>>
    /\ delivered # <<>> =>
         market_time = Target(delivered[Len(delivered)][2])
    /\ \A i \in 1..(Len(delivered) - 1) :
          Legal(Target(delivered[i][2]), delivered[i + 1][2])

\* the session closed and the next one opened
C24_Witness ==
    /\ Len(delivered) = 2
    /\ delivered[1][2] = "PostMarketEnd"
    /\ delivered[2][2] = "PreMarketStart"
    /\ market_time = "PreMarket"

\* C25: when the clock stands on a d-boundary T at which a feed event has
\* just been delivered, and no other feed event carries the timestamp T, the
\* next next_event_or_tick(d) returns the tick of that boundary, (T, Tick).
C25_BoundaryTickAfterEvent ==
    (/\ ret.op = "next_event_or_tick"
     /\ Succeeded
     /\ ret.pre.time % ret.args[1] = 0
     /\ \E i \in 1..Len(delivered) : delivered[i][1] = ret.pre.time
     /\ Cardinality({i \in 1..Len(system_events) :
                       system_events[i].ts * Micro = ret.pre.time}) = 1) =>
        ret.result.val = <<ret.pre.time, "Tick">>

\* C26: sell_at_market fails with InsufficientShares only when the quantity
\* exceeds the shares owned, none being owned of a symbol without an entry:
\* a sale of 0 shares of a symbol never bought, in an open session with a
\* known price, is not refused for want of shares and leaves the cash and
\* the shares of the symbol as they were.
C26_SellNothing ==
    ret.op = "sell_at_market" =>
        /\ ret.result.err[1] = "InsufficientShares" =>
              ret.args[2] > SharesBefore(ret.args[1])
        /\ (/\ ret.args[2] = 0
            /\ ret.args[1] \notin DOMAIN ret.pre.holdings
            /\ ret.pre.market_time \in OpenPhases
            /\ Known(ret.args[1], ret.pre.time)) =>
              /\ cash = ret.pre.cash
              /\ shares_of(ret.args[1]) = 0

\* C27: no feed event is lost or duplicated: over any ascending feed, ties
\* included, the events the calls have returned are the feed events with a
\* timestamp at or before the clock, each once and in the order of the feed.
C27_NothingLost ==
    LET reached == {i \in 1..Len(system_events) :
                      system_events[i].ts * Micro <= time}
    IN  /\ Len(delivered) = Cardinality(reached)
        /\ \A i \in 1..Len(delivered) :
              \E j \in reached :
                 /\ delivered[i] = Delivery(j)
                 /\ system_events[j].ts = system_events[i].ts

\* what C28 says of one call and of the events delivered so far
Progressed ==
    /\ (ret.op = "next_event_or_tick" /\ Succeeded /\ ret.args[1] > 0) =>
         /\ ret.result.val[1] > ret.pre.time
         /\ time = ret.result.val[1]
    /\ (ret.op = "next_event" /\ Succeeded /\ ret.result.val # None) =>
         /\ ret.result.val[2][1] > ret.pre.time
         /\ time = ret.result.val[2][1]
    /\ \A i \in 1..(Len(delivered) - 1) :
          delivered[i][1] < delivered[i + 1][1]

C29_NoWrap ==
    (ret.op = "buy_at_market" /\ Succeeded) =>
        /\ ~overflows(SharesBefore(ret.args[1]), ret.args[2])
        /\ shares_of(ret.args[1]) = SharesBefore(ret.args[1]) + ret.args[2]
====
